---------------------------- MODULE Spec2Model ----------------------------
(***************************************************************************)
(* A model of the todo list editor: the App state of src/src/app.rs, its   *)
(* operations, the natural-language date splitter, and the key-event loop  *)
(* of src/src/main.rs.                                                     *)
(*                                                                         *)
(* Conventions.  A Rust String is a sequence of one-character strings.     *)
(* An Option<T> is a sequence of length 0 (None) or 1 (Some).  Display and *)
(* store indexes are 0-based as in the source; element i of a Vec v is     *)
(* v[i + 1].  The local time zone is taken to have a fixed offset, so      *)
(* and_local_timezone(Local) never fails and now + 1 day is the next       *)
(* calendar day.                                                           *)
(***************************************************************************)
EXTENDS Integers, Sequences, FiniteSets, TLC

-----------------------------------------------------------------------------
(* Options *)

None == << >>

Some(x) == << x >>

IsSome(o) == Len(o) = 1

Unwrap(o) == o[1]

-----------------------------------------------------------------------------
(* Characters and strings *)

Digits == <<"0", "1", "2", "3", "4", "5", "6", "7", "8", "9">>

UpperChars ==
    <<"A", "B", "C", "D", "E", "F", "G", "H", "I", "J", "K", "L", "M",
      "N", "O", "P", "Q", "R", "S", "T", "U", "V", "W", "X", "Y", "Z">>

LowerChars ==
    <<"a", "b", "c", "d", "e", "f", "g", "h", "i", "j", "k", "l", "m",
      "n", "o", "p", "q", "r", "s", "t", "u", "v", "w", "x", "y", "z">>

Range(f) == {f[i] : i \in DOMAIN f}

DigitSet == Range(Digits)

UpperSet == Range(UpperChars)

WordCharSet == Range(Digits) \cup Range(UpperChars) \cup Range(LowerChars) \cup {"_"}

\* char::to_lowercase of the upper-case letters
LowerOf ==
    [c \in UpperSet |-> LowerChars[CHOOSE i \in DOMAIN UpperChars : UpperChars[i] = c]]

IsDigit(c) == c \in DigitSet

DigitVal(c) == (CHOOSE i \in DOMAIN Digits : Digits[i] = c) - 1

\* \w of the regex crate, on the ASCII characters of the model
IsWordChar(c) == c \in WordCharSet

\* char::is_whitespace and \s
IsSpace(c) == c = " "

ToLowerChar(c) == IF c \in UpperSet THEN LowerOf[c] ELSE c

\* str::to_lowercase
ToLower(s) == [i \in 1..Len(s) |-> ToLowerChar(s[i])]

\* the text s[i..j] (1-based, inclusive), empty when j < i
Slice(s, i, j) == IF j < i THEN << >> ELSE SubSeq(s, i, j)

\* pat occurs in s at position i
OccursAt(s, pat, i) ==
    /\ i >= 1
    /\ i + Len(pat) - 1 <= Len(s)
    /\ \A k \in 1..Len(pat) : s[i + k - 1] = pat[k]

\* str::contains
Contains(s, pat) == \E i \in 1..(Len(s) + 1) : OccursAt(s, pat, i)

\* str::starts_with
StartsWith(s, pat) == OccursAt(s, pat, 1)

\* str::replace: every non-overlapping occurrence of pat (non-empty), left
\* to right
RECURSIVE ReplaceFrom(_, _, _, _)
ReplaceFrom(s, pat, rep, i) ==
    IF i > Len(s) THEN << >>
    ELSE IF OccursAt(s, pat, i)
         THEN rep \o ReplaceFrom(s, pat, rep, i + Len(pat))
         ELSE << s[i] >> \o ReplaceFrom(s, pat, rep, i + 1)

Replace(s, pat, rep) == ReplaceFrom(s, pat, rep, 1)

\* str::trim
RECURSIVE TrimStart(_)
TrimStart(s) ==
    IF s # << >> /\ IsSpace(Head(s)) THEN TrimStart(Tail(s)) ELSE s

RECURSIVE TrimEnd(_)
TrimEnd(s) ==
    IF s # << >> /\ IsSpace(s[Len(s)])
    THEN TrimEnd(SubSeq(s, 1, Len(s) - 1))
    ELSE s

Trim(s) == TrimEnd(TrimStart(s))

\* str::split_whitespace: the maximal runs of non-whitespace, in order
RECURSIVE SplitFrom(_, _, _)
SplitFrom(s, i, cur) ==
    IF i > Len(s)
    THEN IF cur = << >> THEN << >> ELSE << cur >>
    ELSE IF IsSpace(s[i])
         THEN (IF cur = << >> THEN << >> ELSE << cur >>)
              \o SplitFrom(s, i + 1, << >>)
         ELSE SplitFrom(s, i + 1, Append(cur, s[i]))

SplitWhitespace(s) == SplitFrom(s, 1, << >>)

\* the number of whitespace characters of s from position i on
RECURSIVE SpaceRun(_, _)
SpaceRun(s, i) ==
    IF i <= Len(s) /\ IsSpace(s[i]) THEN 1 + SpaceRun(s, i + 1) ELSE 0

-----------------------------------------------------------------------------
(* Dates and times (chrono) *)

\* A NaiveTime is [hour, minute] (seconds are 0 in every time the program
\* builds); a DateTime<Local> is [days, hour, minute], days counted from
\* 1970-01-01.

\* NaiveTime::from_hms_opt(h, m, 0)
from_hms_opt(h, m) ==
    IF h < 24 /\ m < 60 THEN Some([hour |-> h, minute |-> m]) ELSE None

\* NaiveTime's order with < written for <=
TimeLe_Strict(t, u) == t.hour < u.hour \/ (t.hour = u.hour /\ t.minute < u.minute)

\* NaiveTime's order
TimeLe(t, u) == t.hour < u.hour \/ (t.hour = u.hour /\ t.minute <= u.minute)

\* Datelike::weekday().num_days_from_monday(); 1970-01-01 was a Thursday
num_days_from_monday(days) == (days + 3) % 7

\* The proleptic Gregorian date <<year, month, day>> of a day number, as
\* chrono computes it: the steps of the civil-from-days algorithm, each
\* handing its results to the next.
CivilDate(y, m, d) == << IF m <= 2 THEN y + 1 ELSE y, m, d >>

CivilOfMp(era, yoe, doy, mp) ==
    CivilDate(yoe + era * 400,
              IF mp < 10 THEN mp + 3 ELSE mp - 9,
              doy - (153 * mp + 2) \div 5 + 1)

CivilOfDoy(era, yoe, doy) == CivilOfMp(era, yoe, doy, (5 * doy + 2) \div 153)

CivilOfYoe(era, doe, yoe) ==
    CivilOfDoy(era, yoe, doe - (365 * yoe + yoe \div 4 - yoe \div 100))

CivilOfDoe(era, doe) ==
    CivilOfYoe(era, doe,
               (doe - doe \div 1460 + doe \div 36524 - doe \div 146096) \div 365)

CivilOfEra(z, era) == CivilOfDoe(era, z - era * 146097)

CivilOfZ(z) == CivilOfEra(z, z \div 146097)

CivilFromDays(days) == CivilOfZ(days + 719468)

\* a number written with at least two digits
Pad2(n) == << Digits[((n \div 10) % 10) + 1], Digits[(n % 10) + 1] >>

\* a year written with four digits
Pad4(n) == Pad2(n \div 100) \o Pad2(n % 100)

\* format("%Y-%m-%d")
FormatYmd(c) == Pad4(c[1]) \o << "-" >> \o Pad2(c[2]) \o << "-" >> \o Pad2(c[3])

FormatDate(days) == FormatYmd(CivilFromDays(days))

\* format("%Y-%m-%d %H:%M")
FormatDateTime(dt) ==
    FormatDate(dt.days) \o << " " >> \o Pad2(dt.hour) \o << ":" >> \o Pad2(dt.minute)

\* the due-date string of a resolved date-time (app.rs 112-116, 130-134)
FormatDue(dt) ==
    IF dt.hour # 0 \/ dt.minute # 0 THEN FormatDateTime(dt) ELSE FormatDate(dt.days)

\* date_naive().and_time(time)
AndTime(days, t) == [days |-> days, hour |-> t.hour, minute |-> t.minute]

-----------------------------------------------------------------------------
(* Time-of-day extractor *)

\* The six regular expressions, in the order they are tried.  prefix_at:
\* the pattern begins "at\s+" instead of "\b"; meridiem: it ends
\* "\s*(AM|PM|am|pm)\b"; suffix_h: it ends "h\b".
time_patterns ==
    << [prefix_at |-> FALSE, has_minutes |-> TRUE,  meridiem |-> TRUE,  suffix_h |-> FALSE],
       [prefix_at |-> FALSE, has_minutes |-> FALSE, meridiem |-> TRUE,  suffix_h |-> FALSE],
       [prefix_at |-> TRUE,  has_minutes |-> TRUE,  meridiem |-> TRUE,  suffix_h |-> FALSE],
       [prefix_at |-> TRUE,  has_minutes |-> FALSE, meridiem |-> TRUE,  suffix_h |-> FALSE],
       [prefix_at |-> FALSE, has_minutes |-> TRUE,  meridiem |-> FALSE, suffix_h |-> FALSE],
       [prefix_at |-> FALSE, has_minutes |-> FALSE, meridiem |-> FALSE, suffix_h |-> TRUE] >>

Meridiems == { <<"A", "M">>, <<"P", "M">>, <<"a", "m">>, <<"p", "m">> }

\* \b between positions i - 1 and i of s
WordBoundary(s, i) ==
    LET before == i - 1 >= 1 /\ i - 1 <= Len(s) /\ IsWordChar(s[i - 1])
        after == i >= 1 /\ i <= Len(s) /\ IsWordChar(s[i])
    IN  before # after

DigitAt(s, i) == i >= 1 /\ i <= Len(s) /\ IsDigit(s[i])

NoMatch ==
    [ok |-> FALSE, first |-> 0, last |-> 0, hour |-> 0, minute |-> 0, is_pm |-> FALSE]

\* The match of pattern p that starts at position i of s, if there is one:
\* [ok, first, last, hour, minute, is_pm].  \d{1,2} takes two digits when
\* two are there (nothing that follows it in a pattern matches a digit)
\* and \s* takes every space (nothing that follows it matches a space).
\* The match is followed through the pattern's parts: the lead ("\b" or
\* "at\s+"), the hour digits from d0, the minutes from q, the ending from
\* q3, the closing "\b" after position e.
MatchClose(s, p, i, hour, minute, q3, e) ==
    IF WordBoundary(s, e + 1)
    THEN [ok |-> TRUE, first |-> i, last |-> e, hour |-> hour, minute |-> minute,
          is_pm |-> p.meridiem /\ ToLowerChar(s[q3]) = "p"]
    ELSE NoMatch

MatchEnding(s, p, i, hour, minute, q3) ==
    IF p.meridiem
    THEN IF \E m \in Meridiems : OccursAt(s, m, q3)
         THEN MatchClose(s, p, i, hour, minute, q3, q3 + 1)
         ELSE NoMatch
    ELSE IF p.suffix_h
    THEN IF OccursAt(s, <<"h">>, q3)
         THEN MatchClose(s, p, i, hour, minute, q3, q3)
         ELSE NoMatch
    ELSE MatchClose(s, p, i, hour, minute, q3, q3 - 1)

MatchMinutes(s, p, i, hour, q) ==
    IF p.has_minutes
    THEN IF OccursAt(s, <<":">>, q) /\ DigitAt(s, q + 1) /\ DigitAt(s, q + 2)
         THEN MatchEnding(s, p, i, hour, 10 * DigitVal(s[q + 1]) + DigitVal(s[q + 2]),
                          IF p.meridiem THEN q + 3 + SpaceRun(s, q + 3) ELSE q + 3)
         ELSE NoMatch
    ELSE MatchEnding(s, p, i, hour, 0,
                     IF p.meridiem THEN q + SpaceRun(s, q) ELSE q)

MatchHour(s, p, i, d0) ==
    IF DigitAt(s, d0) /\ DigitAt(s, d0 + 1)
    THEN MatchMinutes(s, p, i, 10 * DigitVal(s[d0]) + DigitVal(s[d0 + 1]), d0 + 2)
    ELSE IF DigitAt(s, d0)
    THEN MatchMinutes(s, p, i, DigitVal(s[d0]), d0 + 1)
    ELSE NoMatch

MatchAt(s, p, i) ==
    IF p.prefix_at
    THEN IF OccursAt(s, <<"a", "t">>, i) /\ SpaceRun(s, i + 2) >= 1
         THEN MatchHour(s, p, i, i + 2 + SpaceRun(s, i + 2))
         ELSE NoMatch
    ELSE IF WordBoundary(s, i) THEN MatchHour(s, p, i, i) ELSE NoMatch

\* Regex::captures: the leftmost match of p in s, looked for from position i
RECURSIVE CapturesFrom(_, _, _)
CapturesFrom(s, p, i) ==
    IF i > Len(s) THEN None
    ELSE IF MatchAt(s, p, i).ok THEN Some(i)
    ELSE CapturesFrom(s, p, i + 1)

MatchOf(s, p, at) == IF IsSome(at) THEN Some(MatchAt(s, p, Unwrap(at))) ELSE None

Captures(s, p) == MatchOf(s, p, CapturesFrom(s, p, 1))

\* the 24-hour conversion (app.rs 230-236)
hour_24(hour, is_pm) ==
    IF is_pm /\ hour # 12 THEN hour + 12
    ELSE IF ~is_pm /\ hour = 12 THEN 0
    ELSE hour

\* the time and the matched text of a match (app.rs 238-240): None when
\* from_hms_opt refuses the hour and minute
TimeOfMatch(text, c, time) ==
    IF IsSome(time)
    THEN Some([time |-> Unwrap(time), matched |-> Slice(text, c.first, c.last)])
    ELSE None

TimeOfCaptures(text, c) ==
    IF IsSome(c)
    THEN TimeOfMatch(text, Unwrap(c),
                     from_hms_opt(hour_24(Unwrap(c).hour, Unwrap(c).is_pm),
                                  Unwrap(c).minute))
    ELSE None

\* the loop over time_patterns from pattern number k on; found is what
\* pattern k gave
RECURSIVE ExtractFrom(_, _)
ExtractNext(text, k, found) ==
    IF IsSome(found) THEN found ELSE ExtractFrom(text, k + 1)

ExtractFrom(text, k) ==
    IF k > Len(time_patterns) THEN None
    ELSE ExtractNext(text, k, TimeOfCaptures(text, Captures(text, time_patterns[k])))

\* App::extract_time_from_text
extract_time_from_text(text) == ExtractFrom(text, 1)

-----------------------------------------------------------------------------
(* Relative-date resolver and date/description splitter *)

Str_today == <<"t", "o", "d", "a", "y">>

Str_tomorrow == <<"t", "o", "m", "o", "r", "r", "o", "w">>

weekdays ==
    << <<"m", "o", "n", "d", "a", "y">>,
       <<"t", "u", "e", "s", "d", "a", "y">>,
       <<"w", "e", "d", "n", "e", "s", "d", "a", "y">>,
       <<"t", "h", "u", "r", "s", "d", "a", "y">>,
       <<"f", "r", "i", "d", "a", "y">>,
       <<"s", "a", "t", "u", "r", "d", "a", "y">>,
       <<"s", "u", "n", "d", "a", "y">> >>

\* get_next_weekday with >= written for >: the day of now counts
get_next_weekday_TodayCounts(now, target_weekday) ==
    LET current_weekday == num_days_from_monday(now.days)
        days_until_target ==
            IF target_weekday >= current_weekday
            THEN target_weekday - current_weekday
            ELSE 7 - (current_weekday - target_weekday)
    IN  now.days + days_until_target

\* App::get_next_weekday: the day number of the target weekday (0 = Monday)
get_next_weekday(now, target_weekday) ==
    LET current_weekday == num_days_from_monday(now.days)
        days_until_target ==
            IF target_weekday > current_weekday
            THEN target_weekday - current_weekday
            ELSE 7 - (current_weekday - target_weekday)
    IN  now.days + days_until_target

\* the weekday loop (app.rs 181-193): the first weekday, Monday to Sunday,
\* that input_lower contains; input_time is extract_time_from_text(input)
RECURSIVE WeekdayFrom(_, _, _, _)
WeekdayFrom(input_lower, input_time, now, i) ==
    IF i > Len(weekdays) THEN None
    ELSE IF Contains(input_lower, weekdays[i])
    THEN Some([dt |-> AndTime(get_next_weekday(now, i - 1),
                              IF IsSome(input_time) THEN Unwrap(input_time).time
                              ELSE [hour |-> 9, minute |-> 0]),
               matched |-> weekdays[i]])
    ELSE WeekdayFrom(input_lower, input_time, now, i + 1)

\* the rules after the keywords with the weekday loop put before the time
\* rule
ResolveByTime_WeekdayFirst(input_lower, input_time, now) ==
    IF IsSome(WeekdayFrom(input_lower, input_time, now, 1))
    THEN WeekdayFrom(input_lower, input_time, now, 1)
    ELSE IF IsSome(input_time)
    THEN Some([dt |-> AndTime(IF TimeLe(Unwrap(input_time).time, now)
                              THEN now.days + 1
                              ELSE now.days,
                              Unwrap(input_time).time),
               matched |-> Unwrap(input_time).matched])
    ELSE None

\* app.rs 162-193: the rules after the keywords
ResolveByTime(input_lower, input_time, now) ==
    IF IsSome(input_time)
    THEN Some([dt |-> AndTime(IF TimeLe(Unwrap(input_time).time, now)
                              THEN now.days + 1
                              ELSE now.days,
                              Unwrap(input_time).time),
               matched |-> Unwrap(input_time).matched])
    ELSE WeekdayFrom(input_lower, input_time, now, 1)

\* app.rs 147-160: the keyword rules; lower_time is
\* extract_time_from_text(&input_lower)
ResolveKeyword(days, lower_time, default_time, keyword) ==
    IF IsSome(lower_time)
    THEN Some([dt |-> AndTime(days, Unwrap(lower_time).time),
               matched |-> Unwrap(lower_time).matched])
    ELSE Some([dt |-> AndTime(days, default_time), matched |-> keyword])

\* Resolve with the default time of the "today" rule copied into the
\* "tomorrow" rule
Resolve_CopiedDefault(input, input_lower, now) ==
    IF Contains(input_lower, Str_today)
    THEN ResolveKeyword(now.days, extract_time_from_text(input_lower),
                        [hour |-> 23, minute |-> 59], Str_today)
    ELSE IF Contains(input_lower, Str_tomorrow)
    THEN ResolveKeyword(now.days + 1, extract_time_from_text(input_lower),
                        [hour |-> 23, minute |-> 59], Str_tomorrow)
    ELSE ResolveByTime(input_lower, extract_time_from_text(input), now)

Resolve(input, input_lower, now) ==
    IF Contains(input_lower, Str_today)
    THEN ResolveKeyword(now.days, extract_time_from_text(input_lower),
                        [hour |-> 23, minute |-> 59], Str_today)
    ELSE IF Contains(input_lower, Str_tomorrow)
    THEN ResolveKeyword(now.days + 1, extract_time_from_text(input_lower),
                        [hour |-> 9, minute |-> 0], Str_tomorrow)
    ELSE ResolveByTime(input_lower, extract_time_from_text(input), now)

\* App::parse_time_with_context: None, or Some([dt, matched])
parse_time_with_context(input, now) == Resolve(input, ToLower(input), now)

\* app.rs 123-140: the result of the fallback
CleanWith(input, time_result) ==
    IF IsSome(time_result)
    THEN << Replace(Trim(Replace(input, Unwrap(time_result).matched, << >>)),
                    <<" ", " ">>, <<" ">>),
            Some(FormatDue(Unwrap(time_result).dt)) >>
    ELSE << input, None >>

\* App::extract_date_and_clean_description: <<description, due-date option>>.
\* ext is what the external parser parse_date_string(input, now, Dialect::Us)
\* returned: None for Err, Some(dt) for Ok(dt).
extract_date_and_clean_description(input, now, ext) ==
    IF IsSome(ext)
    THEN << input, Some(FormatDue(Unwrap(ext))) >>
    ELSE CleanWith(input, parse_time_with_context(input, now))

\* ExtractTags with contains('#') written for starts_with('#')
ExtractTags_AnyHash(input) ==
    SelectSeq(SplitWhitespace(input), LAMBDA word : Contains(word, <<"#">>))

\* the tags of an input (app.rs 266-271 and 300-305)
ExtractTags(input) ==
    SelectSeq(SplitWhitespace(input), LAMBDA word : StartsWith(word, <<"#">>))

\* the Task literal of app.rs 273-285 and 311-323; split is what
\* extract_date_and_clean_description returned
TaskOf(new_id, input, split) ==
    [id |-> new_id,
     description |-> IF Trim(split[1]) = << >> THEN input ELSE split[1],
     completed |-> FALSE,
     priority |-> "Medium",
     due_date |-> split[2],
     sub_tasks |-> << >>,
     tags |-> ExtractTags(input)]

NewTask(new_id, input, now, ext) ==
    TaskOf(new_id, input, extract_date_and_clean_description(input, now, ext))

-----------------------------------------------------------------------------
(* Bounds of the model *)

\* the most top-level tasks the store holds
MaxTasks == 2

\* the most sub-tasks one task holds
MaxSubTasks == 2

\* the most tasks a store holds while one of them has a sub-task
MaxNested == 1

\* the largest identifier that is assigned
MaxId == 3

\* the texts the user types into the Insert, DateInput and Search popups:
\* a buffer is always a prefix of one of them
InputTexts == { <<"h">> }

DateTexts == { <<"x">> }

SearchTexts == { <<"h">> }

\* the instants Local::now() returns: Thursday 2024-02-29 14:00,
\* Wednesday 2024-03-06 10:00 and Tuesday 2024-12-31 23:59
Nows ==
    { [days |-> 19782, hour |-> 14, minute |-> 0],
      [days |-> 19788, hour |-> 10, minute |-> 0],
      [days |-> 20088, hour |-> 23, minute |-> 59] }

\* what the external parser returns on the texts typed: Err
ExtResults(now) == { None }

\* the stores tasks.json holds at start
InitialStores ==
    { << >>,
      << [id |-> 2, description |-> <<"h">>, completed |-> FALSE,
          priority |-> "High", due_date |-> None, sub_tasks |-> << >>,
          tags |-> << >>] >> }

-----------------------------------------------------------------------------
(* The App (app.rs 14-23) *)

VARIABLES
    tasks,           \* Vec<Task>
    state,           \* ListState: the selected display index, an Option
    mode,            \* AppMode
    input,           \* the Insert buffer
    date_input,      \* the DateInput buffer
    search_input,    \* the Search buffer
    adding_subtask,  \* bool
    retired          \* history: the identifiers delete_task has removed from
                     \* tasks so far

vars ==
    << tasks, state, mode, input, date_input, search_input, adding_subtask,
       retired >>

Str_high == <<"h", "i", "g", "h">>
Str_h == <<"h">>
Str_medium == <<"m", "e", "d", "i", "u", "m">>
Str_med == <<"m", "e", "d">>
Str_m == <<"m">>
Str_low == <<"l", "o", "w">>
Str_l == <<"l">>
Str_completed == <<"c", "o", "m", "p", "l", "e", "t", "e", "d">>
Str_done == <<"d", "o", "n", "e">>
Str_finished == <<"f", "i", "n", "i", "s", "h", "e", "d">>
Str_incomplete == <<"i", "n", "c", "o", "m", "p", "l", "e", "t", "e">>
Str_pending == <<"p", "e", "n", "d", "i", "n", "g">>
Str_todo == <<"t", "o", "d", "o">>

\* the closure of filter_tasks (app.rs 373-398)
MatchesSearch(task, search_lower) ==
    \/ Contains(ToLower(task.description), search_lower)
    \/ \E i \in DOMAIN task.tags : Contains(ToLower(task.tags[i]), search_lower)
    \/ CASE search_lower \in {Str_high, Str_h} -> task.priority = "High"
         [] search_lower \in {Str_medium, Str_med, Str_m} -> task.priority = "Medium"
         [] search_lower \in {Str_low, Str_l} -> task.priority = "Low"
         [] OTHER -> FALSE
    \/ CASE search_lower \in {Str_completed, Str_done, Str_finished} -> task.completed
         [] search_lower \in {Str_incomplete, Str_pending, Str_todo} -> ~task.completed
         [] OTHER -> FALSE
    \/ (IsSome(task.due_date) /\ Contains(Unwrap(task.due_date), search_lower))
    \/ \E j \in DOMAIN task.sub_tasks :
          \/ Contains(ToLower(task.sub_tasks[j].description), search_lower)
          \/ \E i \in DOMAIN task.sub_tasks[j].tags :
                Contains(ToLower(task.sub_tasks[j].tags[i]), search_lower)

\* App::filter_tasks, of a store ts and a search string
FilterTasks(ts, search) ==
    IF search = << >> THEN ts
    ELSE SelectSeq(ts, LAMBDA t : MatchesSearch(t, ToLower(search)))

filter_tasks == FilterTasks(tasks, search_input)

\* App::get_displayed_tasks, of a store, a mode and a search string
DisplayedTasks(ts, md, search) ==
    IF md = "Search" /\ search # << >> THEN FilterTasks(ts, search) ELSE ts

get_displayed_tasks == DisplayedTasks(tasks, mode, search_input)

\* a lookup that takes the last item for an index past the end
Get_Clamped(displayed_tasks, selected) ==
    IF IsSome(selected) /\ displayed_tasks # << >>
    THEN IF Unwrap(selected) < Len(displayed_tasks)
         THEN Some(displayed_tasks[Unwrap(selected) + 1])
         ELSE Some(displayed_tasks[Len(displayed_tasks)])
    ELSE None

\* displayed_tasks.get(selected_index) after state.selected(): an Option
Get(displayed_tasks, selected) ==
    IF IsSome(selected) /\ Unwrap(selected) < Len(displayed_tasks)
    THEN Some(displayed_tasks[Unwrap(selected) + 1])
    ELSE None

SelectedTask == Get(get_displayed_tasks, state)

\* tasks.iter().position(|t| t.id == id): the 0-based index of the first task
\* of ts with that identifier, an Option
Position(ts, id) ==
    LET hits == {i \in DOMAIN ts : ts[i].id = id}
    IN  IF hits = {} THEN None
        ELSE Some((CHOOSE i \in hits : \A j \in hits : i <= j) - 1)

\* the selected display index taken for the store position
Find_AtDisplayIndex(ts, selected_task) ==
    IF IsSome(selected_task) THEN state ELSE None

\* the store position of the selected task (state.selected, get, find)
Find(ts, selected_task) ==
    IF IsSome(selected_task) THEN Position(ts, Unwrap(selected_task).id) ELSE None

MainIndex == Find(tasks, SelectedTask)

\* a new identifier counted from the length of the list: len() + 1
NewId_Len(ts) == Len(ts) + 1

\* a new identifier taken as the smallest one no item of the list holds
NewId_FirstFree(ts) ==
    CHOOSE n \in 1..(Len(ts) + 1) :
        /\ \A i \in DOMAIN ts : ts[i].id # n
        /\ \A m \in 1..(n - 1) : \E i \in DOMAIN ts : ts[i].id = m

\* iter().map(|t| t.id).max().unwrap_or(0) + 1
NewId(ts) ==
    IF ts = << >> THEN 1
    ELSE (CHOOSE m \in {ts[i].id : i \in DOMAIN ts} :
              \A i \in DOMAIN ts : ts[i].id <= m) + 1

\* Ord::min
Min(a, b) == IF a <= b THEN a ELSE b

\* a selection that stays where it was whatever is left to display
NewSelection_Kept(selected_index, new_displayed_tasks) == Some(selected_index)

\* the selection delete_task leaves (app.rs 355-360)
NewSelection(selected_index, new_displayed_tasks) ==
    IF new_displayed_tasks # << >>
    THEN Some(Min(selected_index, Len(new_displayed_tasks) - 1))
    ELSE None

\* a removal that drops the last element whatever i is: Vec::pop
Remove_Last(ts, i) == SubSeq(ts, 1, Len(ts) - 1)

\* Vec::remove(i), i 0-based
Remove(ts, i) == SubSeq(ts, 1, i) \o SubSeq(ts, i + 2, Len(ts))

\* App::new
Init ==
    /\ tasks \in InitialStores
    /\ state = IF tasks # << >> THEN Some(0) ELSE None
    /\ mode = "Normal"
    /\ input = << >>
    /\ date_input = << >>
    /\ search_input = << >>
    /\ adding_subtask = FALSE
    /\ retired = {}

\* next without the wrap-around of % len
next_NoWrap ==
    /\ state' = IF get_displayed_tasks = << >> THEN state
                ELSE IF IsSome(state)
                     THEN Some(Unwrap(state) + 1)
                     ELSE Some(0)
    /\ UNCHANGED << tasks, mode, input, date_input, search_input, adding_subtask,
                    retired >>

\* App::next
next ==
    /\ state' = IF get_displayed_tasks = << >> THEN state
                ELSE IF IsSome(state)
                     THEN Some((Unwrap(state) + 1) % Len(get_displayed_tasks))
                     ELSE Some(0)
    /\ UNCHANGED << tasks, mode, input, date_input, search_input, adding_subtask,
                    retired >>

\* App::previous
previous ==
    /\ state' = IF get_displayed_tasks = << >> THEN state
                ELSE IF IsSome(state)
                     THEN Some((Unwrap(state) + Len(get_displayed_tasks) - 1)
                               % Len(get_displayed_tasks))
                     ELSE Some(0)
    /\ UNCHANGED << tasks, mode, input, date_input, search_input, adding_subtask,
                    retired >>

\* App::toggle_completed; main_index is the position the three lookups of
\* app.rs 74-78 gave
ToggleAt(main_index) ==
    /\ tasks' = IF IsSome(main_index)
                THEN [tasks EXCEPT ![Unwrap(main_index) + 1].completed = ~@]
                ELSE tasks
    /\ UNCHANGED << state, mode, input, date_input, search_input, adding_subtask,
                    retired >>

toggle_completed == ToggleAt(MainIndex)

\* the priority match with Medium written for Low in its last arm
NextPriority_BackToMedium(p) ==
    CASE p = "Low" -> "Medium"
      [] p = "Medium" -> "High"
      [] p = "High" -> "Medium"

\* the match of app.rs 91-95
NextPriority(p) ==
    CASE p = "Low" -> "Medium"
      [] p = "Medium" -> "High"
      [] p = "High" -> "Low"

\* App::cycle_priority
CycleAt(main_index) ==
    /\ tasks' = IF IsSome(main_index)
                THEN [tasks EXCEPT ![Unwrap(main_index) + 1].priority = NextPriority(@)]
                ELSE tasks
    /\ UNCHANGED << state, mode, input, date_input, search_input, adding_subtask,
                    retired >>

cycle_priority == CycleAt(MainIndex)

\* a set_due_date that returns to Normal mode only when it found its task
SetDueDateAt_ModeOnTarget(main_index) ==
    /\ tasks' = IF IsSome(main_index)
                THEN [tasks EXCEPT ![Unwrap(main_index) + 1].due_date = Some(date_input)]
                ELSE tasks
    /\ date_input' = IF IsSome(main_index) THEN << >> ELSE date_input
    /\ mode' = IF IsSome(main_index) THEN "Normal" ELSE mode
    /\ UNCHANGED << state, input, search_input, adding_subtask, retired >>

\* App::set_due_date
SetDueDateAt(main_index) ==
    /\ tasks' = IF IsSome(main_index)
                THEN [tasks EXCEPT ![Unwrap(main_index) + 1].due_date = Some(date_input)]
                ELSE tasks
    /\ date_input' = IF IsSome(main_index) THEN << >> ELSE date_input
    /\ mode' = "Normal"
    /\ UNCHANGED << state, input, search_input, adding_subtask, retired >>

set_due_date == SetDueDateAt(MainIndex)

\* App::delete_task; selected_task is displayed_tasks.get(selected_index)
DeleteAt(selected_task, main_index) ==
    /\ tasks' = IF IsSome(main_index) THEN Remove(tasks, Unwrap(main_index)) ELSE tasks
    /\ state' = IF IsSome(selected_task)
                THEN NewSelection(Unwrap(state),
                                  DisplayedTasks(tasks', mode, search_input))
                ELSE state
    /\ UNCHANGED << mode, input, date_input, search_input, adding_subtask >>

\* the identifiers removed so far, after delete_task
Retire(main_index) ==
    IF IsSome(main_index)
    THEN retired \cup {tasks[Unwrap(main_index) + 1].id}
    ELSE retired

delete_task ==
    /\ DeleteAt(SelectedTask, MainIndex)
    /\ retired' = Retire(MainIndex)

\* the store after the body of App::add_sub_task (app.rs 293-327)
AddSubTaskAt(main_index, now, ext) ==
    IF IsSome(main_index)
    THEN [tasks EXCEPT ![Unwrap(main_index) + 1].sub_tasks =
              Append(@, NewTask(NewId(@), input, now, ext))]
    ELSE tasks

AddSubTaskStore(now, ext) == AddSubTaskAt(MainIndex, now, ext)

\* the largest stores and identifiers the model builds
SubTasksInBounds(main_index) ==
    IsSome(main_index) =>
        /\ Len(tasks) <= MaxNested
        /\ Len(tasks[Unwrap(main_index) + 1].sub_tasks) < MaxSubTasks
        /\ NewId(tasks[Unwrap(main_index) + 1].sub_tasks) <= MaxId

AddSubTaskInBounds == SubTasksInBounds(MainIndex)

AddTaskInBounds ==
    /\ Len(tasks) < MaxTasks
    /\ (\E i \in DOMAIN tasks : tasks[i].sub_tasks # << >>) => Len(tasks) < MaxNested
    /\ NewId(tasks) <= MaxId

\* App::add_sub_task
add_sub_task ==
    /\ AddSubTaskInBounds
    /\ \E now \in Nows : \E ext \in ExtResults(now) :
          tasks' = AddSubTaskStore(now, ext)
    /\ input' = << >>
    /\ mode' = "Normal"
    /\ UNCHANGED << state, date_input, search_input, adding_subtask, retired >>

\* App::add_task
add_task ==
    /\ IF adding_subtask
       THEN /\ AddSubTaskInBounds
            /\ \E now \in Nows : \E ext \in ExtResults(now) :
                  tasks' = AddSubTaskStore(now, ext)
            /\ adding_subtask' = FALSE
            /\ UNCHANGED retired
       ELSE /\ AddTaskInBounds
            /\ \E now \in Nows : \E ext \in ExtResults(now) :
                  tasks' = Append(tasks, NewTask(NewId(tasks), input, now, ext))
            /\ UNCHANGED << adding_subtask, retired >>
    /\ input' = << >>
    /\ mode' = "Normal"
    /\ UNCHANGED << state, date_input, search_input >>

-----------------------------------------------------------------------------
(* The event loop (main.rs 85-166): one action per key of each mode.  The  *)
(* keys whose handlers are not in app.rs (q, f, C, h, t) and the zoom keys *)
(* are left out; KeyOther stands for every key a mode ignores.             *)

\* s is t or a text t begins with
IsPrefix(s, t) == Len(s) <= Len(t) /\ SubSeq(t, 1, Len(s)) = s

\* the characters that keep buffer buf a prefix of one of texts
Typable(buf, texts) ==
    {t[Len(buf) + 1] : t \in {u \in texts : IsPrefix(buf, u) /\ Len(u) > Len(buf)}}

\* String::pop
Pop(buf) == IF buf = << >> THEN buf ELSE SubSeq(buf, 1, Len(buf) - 1)

Normal_Down == mode = "Normal" /\ next

Normal_Up == mode = "Normal" /\ previous

Normal_Enter == mode = "Normal" /\ toggle_completed

Normal_a ==
    /\ mode = "Normal"
    /\ adding_subtask' = FALSE
    /\ mode' = "Insert"
    /\ UNCHANGED << tasks, state, input, date_input, search_input, retired >>

Normal_d == mode = "Normal" /\ delete_task

Normal_p == mode = "Normal" /\ cycle_priority

Normal_D ==
    /\ mode = "Normal"
    /\ mode' = "DateInput"
    /\ UNCHANGED << tasks, state, input, date_input, search_input, adding_subtask,
                    retired >>

Normal_s ==
    /\ mode = "Normal"
    /\ adding_subtask' = TRUE
    /\ mode' = "Insert"
    /\ UNCHANGED << tasks, state, input, date_input, search_input, retired >>

Normal_Slash ==
    /\ mode = "Normal"
    /\ mode' = "Search"
    /\ UNCHANGED << tasks, state, input, date_input, search_input, adding_subtask,
                    retired >>

Insert_Enter == mode = "Insert" /\ add_task

Insert_Char ==
    /\ mode = "Insert"
    /\ \E c \in Typable(input, InputTexts) : input' = Append(input, c)
    /\ UNCHANGED << tasks, state, mode, date_input, search_input, adding_subtask,
                    retired >>

Insert_Backspace ==
    /\ mode = "Insert"
    /\ input' = Pop(input)
    /\ UNCHANGED << tasks, state, mode, date_input, search_input, adding_subtask,
                    retired >>

\* an Esc that leaves the flag as it is
Insert_Esc_KeepFlag ==
    /\ mode = "Insert"
    /\ mode' = "Normal"
    /\ UNCHANGED << tasks, state, input, date_input, search_input, adding_subtask,
                    retired >>

Insert_Esc ==
    /\ mode = "Insert"
    /\ adding_subtask' = FALSE
    /\ mode' = "Normal"
    /\ UNCHANGED << tasks, state, input, date_input, search_input, retired >>

DateInput_Enter == mode = "DateInput" /\ set_due_date

DateInput_Char ==
    /\ mode = "DateInput"
    /\ \E c \in Typable(date_input, DateTexts) : date_input' = Append(date_input, c)
    /\ UNCHANGED << tasks, state, mode, input, search_input, adding_subtask,
                    retired >>

DateInput_Backspace ==
    /\ mode = "DateInput"
    /\ date_input' = Pop(date_input)
    /\ UNCHANGED << tasks, state, mode, input, search_input, adding_subtask,
                    retired >>

DateInput_Esc ==
    /\ mode = "DateInput"
    /\ mode' = "Normal"
    /\ UNCHANGED << tasks, state, input, date_input, search_input, adding_subtask,
                    retired >>

Search_EnterOrEsc ==
    /\ mode = "Search"
    /\ mode' = "Normal"
    /\ UNCHANGED << tasks, state, input, date_input, search_input, adding_subtask,
                    retired >>

Search_Char ==
    /\ mode = "Search"
    /\ \E c \in Typable(search_input, SearchTexts) :
          search_input' = Append(search_input, c)
    /\ UNCHANGED << tasks, state, mode, input, date_input, adding_subtask,
                    retired >>

\* the Backspace of Search mode with the buffer of Insert mode written for
\* its own
Search_Backspace_OtherBuffer ==
    /\ mode = "Search"
    /\ input' = Pop(input)
    /\ UNCHANGED << tasks, state, mode, date_input, search_input, adding_subtask,
                    retired >>

Search_Backspace ==
    /\ mode = "Search"
    /\ search_input' = Pop(search_input)
    /\ UNCHANGED << tasks, state, mode, input, date_input, adding_subtask,
                    retired >>

\* the `_ => {}` arm of every mode
KeyOther == UNCHANGED vars

Next ==
    \/ Normal_Down
    \/ Normal_Up
    \/ Normal_Enter
    \/ Normal_a
    \/ Normal_d
    \/ Normal_p
    \/ Normal_D
    \/ Normal_s
    \/ Normal_Slash
    \/ Insert_Enter
    \/ Insert_Char
    \/ Insert_Backspace
    \/ Insert_Esc
    \/ DateInput_Enter
    \/ DateInput_Char
    \/ DateInput_Backspace
    \/ DateInput_Esc
    \/ Search_EnterOrEsc
    \/ Search_Char
    \/ Search_Backspace
    \/ KeyOther

Spec == Init /\ [][Next]_vars

-----------------------------------------------------------------------------
(* The App as a library: its public methods called in whatever mode the    *)
(* App is in, beside the key events that call none of them.  The event     *)
(* loop calls toggle, delete, cycle and the others in Normal mode only,    *)
(* where the projection is the whole store; here they also run against a   *)
(* filtered projection.  The history of removed identifiers is not kept.   *)

App_delete_task ==
    /\ DeleteAt(SelectedTask, MainIndex)
    /\ UNCHANGED retired

NextApp ==
    \/ next
    \/ previous
    \/ toggle_completed
    \/ cycle_priority
    \/ set_due_date
    \/ App_delete_task
    \/ add_task
    \/ add_sub_task
    \/ Normal_a
    \/ Normal_D
    \/ Normal_s
    \/ Normal_Slash
    \/ Insert_Char
    \/ Insert_Backspace
    \/ Insert_Esc
    \/ DateInput_Char
    \/ DateInput_Backspace
    \/ DateInput_Esc
    \/ Search_EnterOrEsc
    \/ Search_Char
    \/ Search_Backspace

SpecApp == Init /\ [][NextApp]_vars

-----------------------------------------------------------------------------
(* The splitter on its own: Insert mode with a text typed into the buffer, *)
(* committed by Enter into an empty store.  The texts are the inputs the   *)
(* date and time rules are exercised on; the external parser fails on      *)
(* them.                                                                   *)

\* the words before the date phrase of a text
SplitWords ==
    { << "c", "a", "l", "l", " ", "m", "o", "m" >>,
      << "b", "u", "y", " ", "m", "i", "l", "k" >> }

\* an hour 0..23 as it is written, without a leading zero
HourText(h) == IF h < 10 THEN << Digits[h + 1] >> ELSE Pad2(h)

\* the text "<words> tomorrow at <h>pm"
TomorrowAtPm(words, h) ==
    words \o << " " >> \o Str_tomorrow \o << " ", "a", "t", " " >> \o HourText(h)
        \o << "p", "m" >>

SplitTexts ==
    { TomorrowAtPm(words, h) : words \in SplitWords, h \in {3, 11} }
    \cup
    {
      << >>,
      << " " >>,
      << "h" >>,
      << "b", "u", "y", " ", "m", "i", "l", "k" >>,
      << "M", "e", "e", "t", "i", "n", "g", " ", "T", "o", "m", "o", "r", "r",
         "o", "w" >>,
      << "m", "e", "e", "t", "i", "n", "g", " ", "t", "o", "m", "o", "r", "r",
         "o", "w" >>,
      << "T", "O", "M", "O", "R", "R", "O", "W" >>,
      << "t", "o", "d", "a", "y", " ", "o", "r", " ", "t", "o", "m", "o", "r",
         "r", "o", "w" >>,
      << "t", "o", "m", "o", "r", "r", "o", "w", " ", "m", "o", "n", "d", "a",
         "y" >>,
      << "M", "o", "n", "d", "a", "y", " ", "r", "e", "v", "i", "e", "w" >>,
      << "m", "e", "e", "t", "i", "n", "g", " ", "m", "o", "n", "d", "a", "y"
         >>,
      << "t", "h", "u", "r", "s", "d", "a", "y" >>,
      << "w", "e", "d", "n", "e", "s", "d", "a", "y", " ", "s", "y", "n", "c"
         >>,
      << "s", "u", "n", "d", "a", "y" >>,
      << "F", "r", "i", "d", "a", "y" >>,
      << "m", "o", "n", "d", "a", "y", " ", "t", "u", "e", "s", "d", "a", "y"
         >>,
      << "t", "u", "e", "s", "d", "a", "y", " ", "m", "o", "n", "d", "a", "y"
         >>,
      << "c", "a", "l", "l", " ", "3", "P", "M", " ", "t", "o", "d", "a", "y"
         >>,
      << "c", "a", "l", "l", " ", "3", "p", "m", " ", "t", "o", "d", "a", "y"
         >>,
      << "b", "u", "y", " ", "m", "i", "l", "k", " ", "t", "o", "d", "a", "y"
         >>,
      << "t", "o", "d", "a", "y", " ", "t", "o", "d", "a", "y" >>,
      << "c", "a", "l", "l", " ", "a", "t", " ", "1", "p", "m" >>,
      << "l", "u", "n", "c", "h", " ", "1", "4", ":", "0", "0" >>,
      << "s", "t", "a", "n", "d", "u", "p", " ", "9", "h" >>,
      << "d", "i", "n", "n", "e", "r", " ", "1", "0", ":", "3", "0", " ", "P",
         "M" >>,
      << "a", "t", " ", "3", ":", "1", "5", " ", "p", "m" >>,
      << "1", "4", ":", "0", "1" >>,
      << "2", "5", ":", "0", "0" >>,
      << "1", "3", "p", "m", " ", "7", "h" >>,
      << "1", "0", " ", "a", "m" >>,
      << "2", "3", ":", "5", "9" >>,
      << "0", "h" >>,
      << "1", "0", ":", "0", "0" >>,
      << "1", "2", ":", "3", "0" >>,
      << "1", "2", "h" >>,
      << "1", "2", "a", "m" >>,
      << "1", "2", "p", "m" >>,
      << "l", "u", "n", "c", "h", " ", "1", "2", "h" >>,
      << "1", "2", ":", "3", "0", " ", "a", "m" >>,
      << "1", "2", ":", "3", "0", " ", "p", "m" >>,
      << "0", "p", "m" >>,
      << "x", " ", "3", "p", "m", " ", "3", "p", "m" >>,
      << "9", "h", " ", "m", "e", "e", "t", "i", "n", "g", " ", "a", "t", " ",
         "1", "9", "h" >>,
      << "a", " ", "3", "p", "m", " ", " ", "b" >>,
      << "M", "o", "n", "d", "a", "y", " ", "x", " ", " ", "y" >>,
      << "m", "o", "n", "d", "a", "y", " ", "3", "p", "m" >>,
      << "c", "a", "l", "l", " ", "3", "p", "m", " ", "a", "t", " ", "3", ":",
         "0", "0", " ", "p", "m" >>,
      << "t", "o", "m", "o", "r", "r", "o", "w", " ", "2", "5", ":", "0", "0"
         >>,
      << "t", "o", "m", "o", "r", "r", "o", "w", " ", "8", "h" >>,
      << "#", "w", "o", "r", "k", " ", "c", "a", "l", "l", " ", "a", "t", " ",
         "5", "p", "m" >>,
      << "t", "o", "d", "a", "y", " ", "1", "2", ":", "3", "0" >>,
      << "b", "u", "y", " ", "m", "i", "l", "k", " ", "#", "s", "h", "o", "p",
         "p", "i", "n", "g", " ", "#", "u", "r", "g", "e", "n", "t" >>,
      << "#", "a", " ", "x", " ", "#", "a" >>,
      << "c", "#", " ", "n", "o", "t", "e", "s", " ", "#", "d", "e", "v" >>,
      << "#", " ", "x" >>,
      << "f", "r", "i", "d", "a", "y", " ", "1", "4", ":", "0", "0" >>,
      << "s", "u", "n", "d", "a", "y", " ", "9", "h" >>,
      << "m", "o", "n", "d", "a", "y", " ", "2", "5", ":", "0", "0" >>
    }

InitSplit ==
    /\ tasks = << >>
    /\ state = None
    /\ mode = "Insert"
    /\ input \in SplitTexts
    /\ date_input = << >>
    /\ search_input = << >>
    /\ adding_subtask = FALSE
    /\ retired = {}

NextSplit == Insert_Enter

SpecSplit == InitSplit /\ [][NextSplit]_vars

-----------------------------------------------------------------------------
(* Identifiers                                                             *)

\* no two items of the list ts hold the same identifier
UniqueIds(ts) == \A i, j \in DOMAIN ts : i # j => ts[i].id # ts[j].id

\* the identifiers the items of ts hold
IdsOf(ts) == {ts[i].id : i \in DOMAIN ts}

\* C1: in every reachable state no two top-level tasks hold the same
\* identifier, and no two sub-tasks of one task hold the same identifier.
C1_UniqueIdentifiers ==
    /\ UniqueIds(tasks)
    /\ \A i \in DOMAIN tasks : UniqueIds(tasks[i].sub_tasks)

\* C1: after a task was removed and a task was added, a task of the store
\* holds two sub-tasks
C1_Witness ==
    /\ retired # {}
    /\ \E i \in DOMAIN tasks :
          tasks[i].id \in retired /\ Len(tasks[i].sub_tasks) = 2

\* C2 as the specification words it: no task of the store ever holds an
\* identifier that delete_task removed from the store earlier.
C2_NeverAssignedAgain == \A i \in DOMAIN tasks : tasks[i].id \notin retired

\* C2, amended: a step that gives a task an identifier delete_task removed
\* earlier gives it an identifier larger than every identifier the store
\* held before the step.
C2_AssignedAgainOnlyAboveAll ==
    [][\A i \in DOMAIN tasks' :
          (tasks'[i].id \in retired /\ tasks'[i].id \notin IdsOf(tasks))
              => \A j \in DOMAIN tasks : tasks[j].id < tasks'[i].id]_vars

\* C2: a task holds an identifier that was removed earlier, beside a task
\* that was in the store before it
C2_Witness ==
    \E i, j \in DOMAIN tasks :
        j < i /\ tasks[i].id \in retired /\ tasks[j].id < tasks[i].id

-----------------------------------------------------------------------------
(* The view projection                                                     *)

\* C4: in every mode, whenever search_input is not empty the projection
\* get_displayed_tasks holds exactly the tasks of the store that satisfy the
\* search predicate, in store order, and it is the whole store when
\* search_input is empty.
C4_ProjectionFilteredInEveryMode ==
    IF search_input # << >>
    THEN /\ get_displayed_tasks = FilterTasks(tasks, search_input)
         /\ \A i \in DOMAIN get_displayed_tasks :
               MatchesSearch(get_displayed_tasks[i], ToLower(search_input))
    ELSE get_displayed_tasks = tasks

\* the store positions at which a step changes the task
Changed == {k \in DOMAIN tasks : k \in DOMAIN tasks' /\ tasks'[k] # tasks[k]}

\* C5: a step that changes a task of the store and leaves the store as long
\* as it was (toggle_completed, cycle_priority, set_due_date) changes one
\* task only, the task whose identifier is the identifier of the selected
\* item of the projection, wherever that task stands in the store; it changes
\* the completed flag, the priority or the due date of that task and nothing
\* else of it.
C5_ChangesTheProjectedItemById ==
    [][(Len(tasks') = Len(tasks) /\ Changed # {}
            /\ \A k \in DOMAIN tasks : tasks'[k].sub_tasks = tasks[k].sub_tasks)
        => /\ IsSome(state)
           /\ Unwrap(state) < Len(get_displayed_tasks)
           /\ \A k \in Changed :
                 /\ tasks[k].id = get_displayed_tasks[Unwrap(state) + 1].id
                 /\ \/ tasks'[k] = [tasks[k] EXCEPT !.completed = ~@]
                    \/ \E p \in {"Low", "Medium", "High"} :
                          tasks'[k] = [tasks[k] EXCEPT !.priority = p]
                    \/ tasks'[k] = [tasks[k] EXCEPT !.due_date = Some(date_input)]
           /\ \A k, l \in Changed : k = l
      ]_vars

\* C5: under a filter that hides the first task of the store, the selected
\* item of the projection is the second task of the store, and that task is
\* completed, its priority cycled and its due date set while the first task
\* is as add_task made it
C5_Witness ==
    /\ mode = "Search"
    /\ search_input # << >>
    /\ Len(tasks) = 2
    /\ get_displayed_tasks = << tasks[2] >>
    /\ state = Some(0)
    /\ tasks[2].completed /\ tasks[2].priority = "Low" /\ IsSome(tasks[2].due_date)
    /\ ~tasks[1].completed /\ tasks[1].priority = "Medium"
    /\ ~IsSome(tasks[1].due_date)

\* C6: a step that removes a task leaves no selection when the projection
\* of the store it leaves is empty, and otherwise leaves selected the smaller
\* of the display index it was taken at and the last index of that
\* projection.
C6_SelectionAfterDelete ==
    [][Len(tasks') < Len(tasks)
        => /\ IsSome(state)
           /\ IF get_displayed_tasks' = << >>
              THEN state' = None
              ELSE /\ IsSome(state')
                   /\ Unwrap(state') <= Unwrap(state)
                   /\ Unwrap(state') <= Len(get_displayed_tasks') - 1
                   /\ \/ Unwrap(state') = Unwrap(state)
                      \/ Unwrap(state') = Len(get_displayed_tasks') - 1
      ]_vars

\* C6: under a filter, the only item of the projection was removed from a
\* store that holds another task, which the filter hides, and nothing is
\* selected
C6_Witness ==
    /\ mode = "Search"
    /\ search_input # << >>
    /\ Len(tasks) = 1
    /\ tasks[1].id = 2
    /\ tasks[1].description = << >>
    /\ get_displayed_tasks = << >>
    /\ state = None

-----------------------------------------------------------------------------
(* Deleting, creating and dating tasks                                     *)

\* C7: no step removes a task from the store unless the App is in Confirm
\* mode: the key 'd' in Normal mode removes nothing by itself.
C7_DeleteOnlyAfterConfirm ==
    [][Len(tasks') < Len(tasks) => mode = "Confirm"]_vars

\* the display index selects no task of the store: nothing is selected, or
\* the index is not one of the projection, or no task of the store holds the
\* identifier of the selected item of the projection
NoTarget ==
    \/ state = None
    \/ Unwrap(state) >= Len(get_displayed_tasks)
    \/ \A k \in DOMAIN tasks :
          tasks[k].id # get_displayed_tasks[Unwrap(state) + 1].id

\* C8: when the display index selects no task of the store, a step changes
\* the store only by appending a top-level task: toggle_completed,
\* cycle_priority, set_due_date, delete_task and add_sub_task leave the store
\* as it is.
C8_NoTargetNoChange ==
    [][(NoTarget /\ tasks' # tasks)
        => /\ ~adding_subtask
           /\ Len(tasks') = Len(tasks) + 1
           /\ SubSeq(tasks', 1, Len(tasks)) = tasks
      ]_vars

\* C8: the selected display index is past the end of the filtered
\* projection of a store that holds tasks, while the App is set to add a
\* sub-task and the date buffer holds a text to set
C8_Witness ==
    /\ mode = "Search"
    /\ IsSome(state)
    /\ Unwrap(state) >= Len(get_displayed_tasks)
    /\ tasks # << >>
    /\ adding_subtask
    /\ date_input # << >>

\* C9: every task of the store and every sub-task has a description that
\* is not empty.
C9_DescriptionNeverEmpty ==
    \A i \in DOMAIN tasks :
        /\ tasks[i].description # << >>
        /\ \A j \in DOMAIN tasks[i].sub_tasks :
              tasks[i].sub_tasks[j].description # << >>

\* s is a text of the form YYYY-MM-DD or YYYY-MM-DD HH:MM
IsCanonicalDate(s) ==
    /\ Len(s) \in {10, 16}
    /\ \A i \in DOMAIN s :
          CASE i \in {5, 8} -> s[i] = "-"
            [] i = 11 -> s[i] = " "
            [] i = 14 -> s[i] = ":"
            [] OTHER -> IsDigit(s[i])

\* C10: the due date of every task of the store and of every sub-task is
\* absent or a text of the form YYYY-MM-DD or YYYY-MM-DD HH:MM.
C10_DueDateCanonical ==
    \A i \in DOMAIN tasks :
        /\ IsSome(tasks[i].due_date) => IsCanonicalDate(Unwrap(tasks[i].due_date))
        /\ \A j \in DOMAIN tasks[i].sub_tasks :
              IsSome(tasks[i].sub_tasks[j].due_date)
                  => IsCanonicalDate(Unwrap(tasks[i].sub_tasks[j].due_date))

-----------------------------------------------------------------------------
(* Modes, the sub-task flag and the text buffers                           *)

\* C11: adding_subtask is false in every state whose mode is not Insert,
\* and a step that commits an add while adding_subtask is false appends one
\* task to the top-level list and adds nothing to any list of sub-tasks.
C11_FlagOnlyInInsert ==
    /\ mode # "Insert" => ~adding_subtask
    /\ [][/\ mode' # "Insert" => ~adding_subtask'
          /\ (mode = "Insert" /\ ~adding_subtask /\ tasks' # tasks)
                => /\ Len(tasks') = Len(tasks) + 1
                   /\ SubSeq(tasks', 1, Len(tasks)) = tasks
                   /\ tasks'[Len(tasks')].sub_tasks = << >>
         ]_vars

\* C11: Insert mode was left by Esc with a text typed, a task is selected
\* that a sub-task could have gone to, and the flag is false
C11_Witness ==
    /\ mode = "Normal"
    /\ input # << >>
    /\ IsSome(SelectedTask)
    /\ Unwrap(SelectedTask).sub_tasks = << >>
    /\ ~adding_subtask

\* the keys that commit or cancel the entry of Insert, DateInput and Search
CommitOrCancel ==
    \/ Insert_Enter
    \/ Insert_Esc
    \/ DateInput_Enter
    \/ DateInput_Esc
    \/ Search_EnterOrEsc

\* the other keys of Insert, DateInput and Search
OtherEntryKey ==
    \/ Insert_Char
    \/ Insert_Backspace
    \/ DateInput_Char
    \/ DateInput_Backspace
    \/ Search_Char
    \/ Search_Backspace

\* C12: the first mode is Normal; in every state of Insert, DateInput or
\* Search mode Enter and Esc can only lead to Normal mode, whether or not
\* the committed operation finds its task, and no other key can change the
\* mode; every step that leaves one of these modes is an Enter or an Esc
\* and ends in Normal mode.
C12_EnterAndEscLeadToNormal ==
    /\ mode = "Normal"
    /\ [](mode \in {"Insert", "DateInput", "Search"}
            => /\ ~ENABLED (CommitOrCancel /\ mode' # "Normal")
               /\ ~ENABLED (OtherEntryKey /\ mode' # mode))
    /\ [][(mode \in {"Insert", "DateInput", "Search"} /\ mode' # mode)
            => /\ mode' = "Normal"
               /\ CommitOrCancel
         ]_vars

\* C12: DateInput mode was left for Normal mode with a text in its buffer
\* and no task in the store for the date to go to
C12_Witness ==
    /\ mode = "Normal"
    /\ tasks = << >>
    /\ date_input # << >>

\* C13: a step that leaves Insert mode leaves input empty, a step that
\* leaves DateInput mode leaves date_input empty, and a step that leaves
\* Search mode leaves search_input empty.
C13_BufferEmptyOnLeaving ==
    [][/\ (mode = "Insert" /\ mode' # "Insert") => input' = << >>
       /\ (mode = "DateInput" /\ mode' # "DateInput") => date_input' = << >>
       /\ (mode = "Search" /\ mode' # "Search") => search_input' = << >>
      ]_vars

-----------------------------------------------------------------------------
(* The date and time splitter *)

\* the splitter with the external parser failing, run at the instant now
Split(text, now) == extract_date_and_clean_description(text, now, None)

\* a due date written as the date of a day number and a clock time
DueAt(days, hour, minute) ==
    FormatDate(days) \o << " " >> \o Pad2(hour) \o << ":" >> \o Pad2(minute)

\* C14: for every instant now, a text "<words> tomorrow at <H>pm" on which
\* the external parser fails splits into the description "<words>" and the
\* due date of the day after now at <H+12>:00.
C14_TomorrowAtPm ==
    \A now \in Nows : \A words \in SplitWords : \A h \in 1..11 :
        input = TomorrowAtPm(words, h)
            => Split(input, now) = << words, Some(DueAt(now.days + 1, h + 12, 0)) >>

\* C15: for every instant now and every input on which the fallback resolver
\* matches, running the splitter again at the same instant on the cleaned
\* description never gives the due date the first run gave.
C15_RerunNeverSameDue ==
    \A now \in Nows :
        IsSome(parse_time_with_context(input, now))
            => Split(Split(input, now)[1], now)[2] # Split(input, now)[2]

\* no clock-time pattern matches anywhere in the text
NoClockTime(text) ==
    \A k \in DOMAIN time_patterns : ~IsSome(Captures(text, time_patterns[k]))

\* the resolver returns the given day at the given time
ResolvesTo(text, now, days, hour, minute) ==
    /\ IsSome(parse_time_with_context(text, now))
    /\ Unwrap(parse_time_with_context(text, now)).dt
          = [days |-> days, hour |-> hour, minute |-> minute]

\* C16 (as stated): for every instant now, a text that contains "tomorrow"
\* in any letter case and matches no clock-time pattern resolves to the day
\* after now at 09:00, whatever other words it contains, "today" included.
C16_TomorrowWhateverElse ==
    \A now \in Nows :
        (Contains(ToLower(input), Str_tomorrow) /\ NoClockTime(ToLower(input)))
            => ResolvesTo(input, now, now.days + 1, 9, 0)

\* C16 (amended): for every instant now, a text that contains "tomorrow" in
\* any letter case, does not contain "today" and matches no clock-time
\* pattern resolves to the day after now at 09:00, a weekday name in the
\* text changing nothing; a text without a clock time that contains "today"
\* resolves to the day of now at 23:59 even when it contains "tomorrow" too.
C16_TomorrowUnlessToday ==
    \A now \in Nows :
        /\ ( /\ Contains(ToLower(input), Str_tomorrow)
             /\ ~Contains(ToLower(input), Str_today)
             /\ NoClockTime(ToLower(input)) )
              => ResolvesTo(input, now, now.days + 1, 9, 0)
        /\ ( /\ Contains(ToLower(input), Str_tomorrow)
             /\ Contains(ToLower(input), Str_today)
             /\ NoClockTime(ToLower(input)) )
              => ResolvesTo(input, now, now.days, 23, 59)

\* "tomorrow monday" was committed on Thursday 2024-02-29: the task is due
\* on Friday 2024-03-01 at 09:00 and keeps the weekday name as its text
C16_Witness ==
    /\ mode = "Normal"
    /\ Len(tasks) = 1
    /\ tasks[1].description = weekdays[1]
    /\ tasks[1].due_date = Some(DueAt(19783, 9, 0))

\* the text holds none of the day words: "today", "tomorrow", a weekday name
NoDayWord(text) ==
    /\ ~Contains(text, Str_today)
    /\ ~Contains(text, Str_tomorrow)
    /\ \A i \in DOMAIN weekdays : ~Contains(text, weekdays[i])

\* the time-of-day t is later than the time-of-day of now
TimeAfter(t, now) ==
    t.hour > now.hour \/ (t.hour = now.hour /\ t.minute > now.minute)

\* the date-time dt is later than the instant now
After(dt, now) ==
    dt.days > now.days \/ (dt.days = now.days /\ TimeAfter(dt, now))

\* the resolver returns the time-of-day t on the day of now when t is later
\* than now's time-of-day and on the day after otherwise
RollsForward(text, now, t) ==
    /\ ResolvesTo(text, now,
                  IF TimeAfter(t, now) THEN now.days ELSE now.days + 1,
                  t.hour, t.minute)
    /\ After(Unwrap(parse_time_with_context(text, now)).dt, now)

\* C17: for every instant now, a text from which a clock time is extracted
\* and which holds no "today", "tomorrow" or weekday name resolves to that
\* time today when it is later than now's time-of-day and to that time
\* tomorrow when it is earlier or equal; the result is later than now.
C17_ClockTimeRollsForward ==
    \A now \in Nows :
        (IsSome(extract_time_from_text(input)) /\ NoDayWord(ToLower(input)))
            => RollsForward(input, now, Unwrap(extract_time_from_text(input)).time)

\* "call at 1pm" was committed on Thursday 2024-02-29 at 14:00: the task is
\* due on Friday 2024-03-01 at 13:00
C17_Witness ==
    /\ mode = "Normal"
    /\ Len(tasks) = 1
    /\ tasks[1].description = << "c", "a", "l", "l", " ", "a", "t" >>
    /\ tasks[1].due_date = Some(DueAt(19783, 13, 0))

\* the only date expression of the text is the i-th weekday name
OnlyWeekday(text, i) ==
    /\ Contains(text, weekdays[i])
    /\ \A j \in DOMAIN weekdays : j # i => ~Contains(text, weekdays[j])
    /\ ~Contains(text, Str_today)
    /\ ~Contains(text, Str_tomorrow)
    /\ NoClockTime(text)

\* the weekday of the instant now and of the i-th weekday name, Monday = 0
CurrentWeekday(now) == (now.days + 3) % 7

TargetWeekday(i) == i - 1

\* C18 (as stated): for every instant now, a text whose only date expression
\* is a weekday name resolves to 09:00 of the day that is
\* (target - current + 7) mod 7 days after the day of now: 0 days when the
\* day of now is the named weekday.
C18_SameWeekdayIsToday ==
    \A now \in Nows : \A i \in DOMAIN weekdays :
        OnlyWeekday(ToLower(input), i)
            => ResolvesTo(input, now,
                          now.days + ((TargetWeekday(i) - CurrentWeekday(now) + 7) % 7),
                          9, 0)

\* C18 (amended): for every instant now, a text whose only date expression
\* is a weekday name resolves to 09:00 of the day that is
\* ((target - current + 6) mod 7) + 1 days after the day of now: 1 to 7 days,
\* 5 days for "monday" on a Wednesday and 7 days when the day of now is the
\* named weekday.
C18_SameWeekdayIsNextWeek ==
    \A now \in Nows : \A i \in DOMAIN weekdays :
        OnlyWeekday(ToLower(input), i)
            => ResolvesTo(input, now,
                          now.days + ((TargetWeekday(i) - CurrentWeekday(now) + 6) % 7) + 1,
                          9, 0)

\* "wednesday sync" was committed on Wednesday 2024-03-06: the task is due
\* on Wednesday 2024-03-13 at 09:00
C18_Witness ==
    /\ mode = "Normal"
    /\ Len(tasks) = 1
    /\ tasks[1].description = << "s", "y", "n", "c" >>
    /\ tasks[1].due_date = Some(DueAt(19795, 9, 0))

\* the AM/PM marker a match of pattern p ends with, in lower case; empty for
\* the patterns that have none
MarkerOf(text, p, c) ==
    IF p.meridiem THEN ToLower(Slice(text, c.last - 1, c.last)) ELSE << >>

\* the hour of the day meant by the written hour h with the marker
ExpectedHour(h, marker) ==
    IF marker = << "p", "m" >> /\ h # 12 THEN h + 12
    ELSE IF marker = << "a", "m" >> /\ h = 12 THEN 0
    ELSE h

\* the hour the extractor computes for the match c
ExtractedHour(c) == hour_24(c.hour, c.is_pm)

\* the extractor's loop gets to pattern number k: no earlier pattern gave a
\* time
Reached(text, k) ==
    \A j \in 1..(k - 1) :
        ~IsSome(TimeOfCaptures(text, Captures(text, time_patterns[j])))

\* C19: for every match of a time pattern that the extractor gets to, with
\* written hour h, the extracted hour is h + 12 when the marker is PM and h is
\* not 12, 0 when the marker is AM and h is 12, and h itself otherwise, also
\* for "H:MM" and "Hh", which have no marker.
C19_HourOfMatch ==
    \A k \in DOMAIN time_patterns :
        (Reached(input, k) /\ IsSome(Captures(input, time_patterns[k])))
            => ExtractedHour(Unwrap(Captures(input, time_patterns[k])))
                  = ExpectedHour(Unwrap(Captures(input, time_patterns[k])).hour,
                                 MarkerOf(input, time_patterns[k],
                                          Unwrap(Captures(input, time_patterns[k]))))

\* the text s without the first occurrence of pat, s itself when pat does not
\* occur in it
RemoveFirst(s, pat) ==
    IF Contains(s, pat)
    THEN LET i == CHOOSE n \in 1..(Len(s) + 1) :
                      /\ OccursAt(s, pat, n)
                      /\ \A k \in 1..(n - 1) : ~OccursAt(s, pat, k)
         IN  Slice(s, 1, i - 1) \o Slice(s, i + Len(pat), Len(s))
    ELSE s

\* the text s with every run of spaces made one space
RECURSIVE CollapseSpaces(_)
CollapseSpaces(s) ==
    IF Contains(s, << " ", " " >>)
    THEN CollapseSpaces(Replace(s, << " ", " " >>, << " " >>))
    ELSE s

\* what the claim takes the cleaned description to be
FirstRemoved(text, matched) == CollapseSpaces(Trim(RemoveFirst(text, matched)))

\* C20: for every instant now and every input on which the fallback resolver
\* matches, the cleaned description is the input with only the first
\* occurrence of the matched literal removed, trimmed and with its runs of
\* spaces collapsed: it holds no two spaces in a row.
C20_OnlyFirstOccurrenceRemoved ==
    \A now \in Nows :
        IsSome(parse_time_with_context(input, now))
            => /\ Split(input, now)[1]
                    = FirstRemoved(input,
                                   Unwrap(parse_time_with_context(input, now)).matched)
               /\ ~Contains(Split(input, now)[1], << " ", " " >>)

-----------------------------------------------------------------------------
(* Tags, priorities, the selection and the frame of the events *)

\* the positions of a text where a whitespace-delimited token begins
TokenStarts(s) ==
    { i \in 1..Len(s) : ~IsSpace(s[i]) /\ (i = 1 \/ IsSpace(s[i - 1])) }

\* the last position of the token that begins at position i
TokenEnd(s, i) ==
    CHOOSE j \in i..Len(s) :
        /\ \A k \in i..j : ~IsSpace(s[k])
        /\ j = Len(s) \/ IsSpace(s[j + 1])

\* the positions where a token that begins with '#' begins
TagStarts(s) == { i \in TokenStarts(s) : s[i] = "#" }

\* the k-th smallest member of a set of numbers
Nth(S, k) == CHOOSE i \in S : Cardinality({ j \in S : j < i }) = k - 1

\* the tokens that begin with '#', in the order of the text
TagTokens(s) ==
    [k \in 1..Cardinality(TagStarts(s)) |->
        Slice(s, Nth(TagStarts(s), k), TokenEnd(s, Nth(TagStarts(s), k)))]

\* the text holds no date expression: no day word, no clock time
NoDateExpression(text) == NoDayWord(ToLower(text)) /\ NoClockTime(ToLower(text))

\* C21: the tags of an item added at the top level are the whitespace-
\* delimited tokens of the typed text that begin with '#', in the order of
\* the text with duplicates kept; when the text holds no date expression the
\* description of the item is the text unchanged and it has no due date.
C21_TagsOfNewItem ==
    [][(mode = "Insert" /\ ~adding_subtask /\ Len(tasks') = Len(tasks) + 1)
          => /\ tasks'[Len(tasks')].tags = TagTokens(input)
             /\ NoDateExpression(input)
                   => /\ tasks'[Len(tasks')].description = input
                      /\ tasks'[Len(tasks')].due_date = None
      ]_vars

\* "buy milk #shopping #urgent" was committed: the task has the two tags,
\* the whole text as its description and no due date
C21_Witness ==
    /\ mode = "Normal"
    /\ Len(tasks) = 1
    /\ Len(tasks[1].tags) = 2
    /\ tasks[1].tags[1] = << "#", "s", "h", "o", "p", "p", "i", "n", "g" >>
    /\ tasks[1].tags[2] = << "#", "u", "r", "g", "e", "n", "t" >>
    /\ Len(tasks[1].description) = 26
    /\ tasks[1].due_date = None

\* the priority the cycle is said to give after the priority p
CycleOf(p) ==
    IF p = "Low" THEN "Medium" ELSE IF p = "Medium" THEN "High" ELSE "Low"

\* C22: a task or sub-task that is added has priority Medium; a step that
\* changes a priority changes the priority of the selected task only, Low to
\* Medium, Medium to High, High to Low, and no other field of any task; and
\* two more cycles of the new priority give the priority the task had, so
\* three cycles in a row restore it.
C22_PriorityCycle ==
    [][/\ Len(tasks') = Len(tasks) + 1
            => tasks'[Len(tasks')].priority = "Medium"
       /\ \A i \in DOMAIN tasks :
            (Len(tasks') = Len(tasks)
                /\ Len(tasks'[i].sub_tasks) = Len(tasks[i].sub_tasks) + 1)
               => tasks'[i].sub_tasks[Len(tasks'[i].sub_tasks)].priority = "Medium"
       /\ \A i \in DOMAIN tasks :
            (Len(tasks') = Len(tasks) /\ tasks'[i].priority # tasks[i].priority)
               => /\ MainIndex = Some(i - 1)
                  /\ tasks' = [tasks EXCEPT ![i].priority = CycleOf(@)]
                  /\ NextPriority(NextPriority(tasks'[i].priority))
                        = tasks[i].priority
      ]_vars

\* the task that was added to the empty store with priority Medium has been
\* cycled to Low
C22_Witness ==
    /\ Len(tasks) = 1
    /\ tasks[1].id = 1
    /\ tasks[1].priority = "Low"
    /\ mode = "Normal"

\* C23: in every reachable state whose mode is not Search the projection is
\* the store, and the selection is none or an index below the number of
\* projected tasks.
C23_SelectionInProjection ==
    mode # "Search"
        => /\ get_displayed_tasks = tasks
           /\ \/ state = None
              \/ Unwrap(state) \in 0..(Len(get_displayed_tasks) - 1)

\* after a delete the store is full again and its last task is selected
C23_Witness ==
    /\ mode = "Normal"
    /\ retired # {}
    /\ Len(tasks) = MaxTasks
    /\ state = Some(Len(tasks) - 1)

\* the events that commit to the store
StoreEvent ==
    \/ Normal_Enter
    \/ Normal_d
    \/ Normal_p
    \/ Insert_Enter
    \/ DateInput_Enter

-----------------------------------------------------------------------------
(* Weekday names next to clock times *)

\* the text holds a weekday name
HasWeekday(text) == \E i \in DOMAIN weekdays : Contains(text, weekdays[i])

\* the text holds neither "today" nor "tomorrow"
NoKeyword(text) == ~Contains(text, Str_today) /\ ~Contains(text, Str_tomorrow)

\* C25: for every instant now and every text that holds a weekday name and
\* neither "today" nor "tomorrow": when no clock time is extracted from the
\* text the result has the time 09:00; when one is extracted the result is
\* that time on the day of now if it is later than now's time-of-day and on
\* the day after otherwise, as for a text without the weekday name.
C25_WeekdayRuleAtNine ==
    \A now \in Nows :
        (HasWeekday(ToLower(input)) /\ NoKeyword(ToLower(input)))
            => IF IsSome(extract_time_from_text(input))
               THEN RollsForward(input, now,
                                 Unwrap(extract_time_from_text(input)).time)
               ELSE /\ IsSome(parse_time_with_context(input, now))
                    /\ Unwrap(parse_time_with_context(input, now)).dt.hour = 9
                    /\ Unwrap(parse_time_with_context(input, now)).dt.minute = 0
                    /\ Unwrap(parse_time_with_context(input, now)).dt.days > now.days

\* "monday 3pm" was committed on Thursday 2024-02-29 at 14:00: the task is
\* due on that Thursday at 15:00 and keeps the weekday name as its text
C25_Witness ==
    /\ mode = "Normal"
    /\ Len(tasks) = 1
    /\ tasks[1].description = weekdays[1]
    /\ tasks[1].due_date = Some(DueAt(19782, 15, 0))

-----------------------------------------------------------------------------
(* The renderer (ui.rs 66-215): the rows of the list and the highlighted   *)
(* row.  The rows are built from the projection; the highlight is the row  *)
(* at the index the selection holds.  focus_mode is a field app.rs does    *)
(* not have: the rows are given for both of its values.                    *)

\* a row of the list: task is the 0-based position of a projected task,
\* sub_task is 0 for the row of the task itself and k for the row of its
\* k-th sub-task
TaskRow(i) == [task |-> i, sub_task |-> 0]

\* the rows of the sub-tasks of the projected task at position i
\* (ui.rs 122-176)
SubTaskRows(task, i, focus_mode) ==
    IF ~focus_mode \/ ~task.completed
    THEN SelectSeq([k \in 1..Len(task.sub_tasks) |-> [task |-> i, sub_task |-> k]],
                   LAMBDA row : ~(focus_mode /\ task.sub_tasks[row.sub_task].completed))
    ELSE << >>

\* the loop over displayed_tasks from position i on (ui.rs 71-178)
RECURSIVE ItemsFrom(_, _, _)
ItemsFrom(displayed_tasks, i, focus_mode) ==
    IF i > Len(displayed_tasks) THEN << >>
    ELSE << TaskRow(i - 1) >>
         \o SubTaskRows(displayed_tasks[i], i - 1, focus_mode)
         \o ItemsFrom(displayed_tasks, i + 1, focus_mode)

\* the items render_tasks hands to the List
Items(focus_mode) == ItemsFrom(get_displayed_tasks, 1, focus_mode)

\* the row the List highlights: the item at the selected index
Highlighted(focus_mode) == Get(Items(focus_mode), state)

\* a task with an identifier and a number of sub-tasks, as add_task and
\* add_sub_task build them from the text "h"
RenderedTask(id, n) ==
    [id |-> id, description |-> <<"h">>, completed |-> FALSE,
     priority |-> "Medium", due_date |-> None,
     sub_tasks |-> [k \in 1..n |->
                       [id |-> k, description |-> <<"h">>, completed |-> FALSE,
                        priority |-> "Medium", due_date |-> None,
                        sub_tasks |-> << >>, tags |-> << >>]],
     tags |-> << >>]

\* the stores tasks.json holds at start: one to MaxTasks tasks, each with up
\* to MaxSubTasks sub-tasks
RenderedStores ==
    UNION { { [i \in 1..n |-> RenderedTask(i, subs[i])] :
                subs \in [1..n -> 0..MaxSubTasks] } : n \in 1..MaxTasks }

InitRender ==
    /\ tasks \in RenderedStores
    /\ state = Some(0)
    /\ mode = "Normal"
    /\ input = << >>
    /\ date_input = << >>
    /\ search_input = << >>
    /\ adding_subtask = FALSE
    /\ retired = {}

NextRender ==
    \/ Normal_Down
    \/ Normal_Up
    \/ Normal_Enter
    \/ Normal_d
    \/ Normal_p
    \/ Normal_D
    \/ DateInput_Enter
    \/ DateInput_Char
    \/ DateInput_Esc

SpecRender == InitRender /\ [][NextRender]_vars

\* C26: in every reachable state with a selected task, for both values of
\* the focus switch, the row the list highlights is the row of the projected
\* task at the selected index, the task that toggle, delete, cycle_priority
\* and set_due_date act on, also when tasks before it have sub-tasks.
C26_HighlightIsSelectedTask ==
    \A focus_mode \in BOOLEAN :
        IsSome(SelectedTask)
            => Highlighted(focus_mode) = Some(TaskRow(Unwrap(state)))

=============================================================================
